---- MODULE Spec2Model ----
(***************************************************************************)
(* Presence registry, signaling relay and message relay of src/server.js   *)
(* (the socket.io part, lines 24-39 and 172-223) together with the         *)
(* saveMessage write of the db module (src/unnamed/part_000, 200-203).     *)
(*                                                                         *)
(* Node runs every handler and every database callback to completion, so   *)
(* each handler and each getUserAvatar callback is one atomic action.      *)
(* The avatar lookup started by a connection completes in a later step,    *)
(* possibly after other events of any connection, the connection's own     *)
(* disconnect included.                                                    *)
(***************************************************************************)
EXTENDS Bags, FiniteSets, Integers, Sequences, TLC

\* ---------------------------------------------------------------- bounds
\* Number of connections that are open at the same time.
MaxLive == 2

\* ------------------------------------------------------------ input sets
\* Connection ids are generated fresh by the transport and never reused;
\* ConnName[i] is the id of the i-th connection attempt.
ConnName == <<"c1", "c2", "c3">>
Conns == {ConnName[i] : i \in 1..Len(ConnName)}
ConnIndex(c) == CHOOSE i \in 1..Len(ConnName) : ConnName[i] = c

\* Usernames that hold an account (a token can be signed for them).
Users == {"alice", "bob"}
\* Names a client may put in data.target / data.to: the accounts and a name
\* that never connects.
Names == Users \cup {"carol"}
\* data.room of join.
RoomNames == {"r1"}
\* data.room of chat-message: a joined room, or the room socket.io names by
\* the id of the first connection.
ChatRooms == RoomNames \cup {ConnName[1]}
\* d.to of offer / answer / ice: a connection id or a room name.
Targets == RoomNames \cup Conns
\* Opaque handshake payloads: d.offer, d.answer, d.candidate.
Offers == {"sdp1", "sdp2"}
Answers == {"sdp3"}
Candidates == {"cand1"}
\* The two readings of new Date().toLocaleTimeString() in one handler run:
\* the same second, or the second reading one tick later.
ClockPairs == {<<"t1", "t1">>, <<"t1", "t2">>}
\* The reading of a handler that reads the clock once.
Times == {p[1] : p \in ClockPairs}
\* results?.[0]?.avatar of the avatar lookup by user: the users table holds
\* an avatar for alice and none for bob.
DbAvatar(u) == IF u = "alice" THEN "av" ELSE "undefined"
\* Credentials presented at connection time: signed for an account, or not
\* verifiable.
Tokens == [sig : {"good"}, username : Users] \cup {[sig |-> "bad", username |-> "mallory"]}
\* Message bodies a client sends: text, optional image, and the sender and
\* time fields a client may add although the server sets them.
Bodies == {[text |-> "hi", image |-> "undefined", sender |-> "undefined", time |-> "undefined"],
           [text |-> "yo", image |-> "img", sender |-> "mallory", time |-> "t0"]}
JoinData == [room : RoomNames]
\* data of initiate-call; the client also sends a from field of its own.
CallData == [target : Names, room : RoomNames, type : {"video"}, callMode : {"p2p"},
             from : {"mallory"}]
ChatData == {[room |-> r, text |-> b.text, image |-> b.image, sender |-> b.sender, time |-> b.time] :
                r \in ChatRooms, b \in Bodies}
PrivateData == {[to |-> n, text |-> b.text, image |-> b.image, sender |-> b.sender, time |-> b.time] :
                n \in Names, b \in Bodies}
\* d of offer; with the second offer the client sends a username of its own.
OfferData == {[to |-> t, offer |-> o, username |-> IF o = "sdp1" THEN "undefined" ELSE "mallory"] :
                t \in Targets, o \in Offers}
AnswerData == [to : Targets, answer : Answers]
IceData == [to : Targets, candidate : Candidates]

VARIABLES
    conn,           \* conn[c]: "none" | "rejected" | "open" | "closed"
    lookup,         \* lookup[c]: "idle" | "pending" | "done"  (db.getUserAvatar)
    username,       \* socket.username, set by the auth middleware
    rooms,          \* rooms[c]: the rooms socket c is in (adapter state)
    onlineUsers,    \* Map socketId -> session, in insertion order
    userSocketMap,  \* Map username -> socketId
    out,            \* bag of events delivered by the last handler
    writes,         \* bag of message inserts issued by the last handler
    last,           \* the event the last handler processed
    regLog          \* per username: registrations since its last disconnect

vars == <<conn, lookup, username, rooms, onlineUsers, userSocketMap, out, writes, last, regLog>>

\* ----------------------------------------------------- Map (insertion order)
\* onlineUsers is a sequence of [id, user] pairs without duplicate ids.
MapHas(m, k) == \E i \in 1..Len(m) : m[i].id = k
MapIndex(m, k) == CHOOSE i \in 1..Len(m) : m[i].id = k
MapGet(m, k) == m[MapIndex(m, k)].user
\* Map.prototype.set: an existing key keeps its position.
MapSet(m, k, v) ==
    IF MapHas(m, k)
    THEN [m EXCEPT ![MapIndex(m, k)] = [id |-> k, user |-> v]]
    ELSE Append(m, [id |-> k, user |-> v])
\* Map.prototype.delete
MapDelete(m, k) == SelectSeq(m, LAMBDA e : e.id # k)

\* A set that leaves an existing key alone (first writer wins).
RouteSetFirst(m, u, c) == IF u \in DOMAIN m THEN m ELSE [k \in DOMAIN m \cup {u} |-> IF k = u THEN c ELSE m[k]]
\* A delete that removes nothing.
RouteDeleteKept(m, u) == m
\* userSocketMap is a function whose domain is the set of keys present.
RouteSet(m, u, c) == [k \in DOMAIN m \cup {u} |-> IF k = u THEN c ELSE m[k]]
RouteDelete(m, u) == [k \in DOMAIN m \ {u} |-> m[k]]
\* Map.prototype.get: undefined for an absent key.
RouteGet(m, u) == IF u \in DOMAIN m THEN m[u] ELSE "undefined"

\* ------------------------------------------------------ getUniqueOnlineUsers
RECURSIVE UniqueFoldFirst(_, _, _)
\* The loop without the isBusy merge: the first session of a username wins.
UniqueFoldFirst(m, i, acc) ==
    IF i > Len(m) THEN acc
    ELSE LET user == m[i].user
             has == \E j \in 1..Len(acc) : acc[j].username = user.username
         IN IF ~has
            THEN UniqueFoldFirst(m, i + 1, Append(acc, user))
            ELSE UniqueFoldFirst(m, i + 1, acc)

RECURSIVE UniqueFold(_, _, _)
\* The loop of getUniqueOnlineUsers from entry i on; acc is uniqueMap as a
\* sequence of user copies in insertion order.
UniqueFold(m, i, acc) ==
    IF i > Len(m) THEN acc
    ELSE LET user == m[i].user
             has == \E j \in 1..Len(acc) : acc[j].username = user.username
             at == CHOOSE j \in 1..Len(acc) : acc[j].username = user.username
         IN IF ~has
            THEN UniqueFold(m, i + 1, Append(acc, user))
            ELSE IF user.isBusy
                 THEN UniqueFold(m, i + 1, [acc EXCEPT ![at].isBusy = TRUE])
                 ELSE UniqueFold(m, i + 1, acc)

getUniqueOnlineUsers(m) == UniqueFold(m, 1, <<>>)

\* uniqueMap.set(user.username, user): uniqueMap holds the stored session
\* of entry i itself.
SameObject(i) == i
\* { ...user } (line 32): the object uniqueMap holds for entry i of
\* onlineUsers is a new one; 0 says that it is no stored session.
SpreadCopy(i) == 0

RECURSIVE StoreFold(_, _, _)
\* What the loop of getUniqueOnlineUsers does to the sessions stored in m,
\* from entry i on; refs lists, per username in uniqueMap, the entry of m
\* whose object uniqueMap holds.  existing.isBusy = true (line 35) writes to
\* that object.
StoreFold(m, i, refs) ==
    IF i > Len(m) THEN m
    ELSE LET user == m[i].user
             has == \E j \in 1..Len(refs) : refs[j].username = user.username
             at == CHOOSE j \in 1..Len(refs) : refs[j].username = user.username
         IN IF ~has
            THEN StoreFold(m, i + 1, Append(refs, [username |-> user.username, ref |-> SpreadCopy(i)]))
            ELSE IF user.isBusy /\ refs[at].ref # 0
                 THEN StoreFold([m EXCEPT ![refs[at].ref].user.isBusy = TRUE], i + 1, refs)
                 ELSE StoreFold(m, i + 1, refs)

\* onlineUsers after a call of getUniqueOnlineUsers.
StoreAfterSnapshot(m) == StoreFold(m, 1, <<>>)

\* ------------------------------------------------------------- transport
\* io.to(room).emit(...): every socket in the room, the sender included.
ToRoomAll(rm, sender, room, msg) ==
    SetToBag({[dest |-> d, msg |-> msg] : d \in {d \in Conns : room \in rm[d]}})
\* socket.to(room).emit(...): every socket in the room except the sender.
ToRoom(rm, sender, room, msg) ==
    SetToBag({[dest |-> d, msg |-> msg] : d \in {d \in Conns : room \in rm[d]} \ {sender}})
\* socket.emit(...): the socket itself.
ToSelf(c, msg) == SetToBag({[dest |-> c, msg |-> msg]})
\* io.emit(...): every connected socket.
ToAll(cn, msg) == SetToBag({[dest |-> d, msg |-> msg] : d \in {d \in Conns : cn[d] = "open"}})

\* ------------------------------------------------------------ persistence
\* x || null
OrNull(x) == IF x \in {"undefined", "null", ""} THEN "null" ELSE x
\* db.saveMessage: the parameters of the INSERT it issues.
saveMessage(sender, receiver, room, message, image, type) ==
    [sender |-> sender, receiver |-> OrNull(receiver), room |-> OrNull(room),
     message |-> message, image_data |-> OrNull(image), type |-> type]

\* ------------------------------------------------------------------- Init
Init ==
    /\ conn = [c \in Conns |-> "none"]
    /\ lookup = [c \in Conns |-> "idle"]
    /\ username = [c \in Conns |-> "undefined"]
    /\ rooms = [c \in Conns |-> {}]
    /\ onlineUsers = <<>>
    /\ userSocketMap = [k \in {} |-> "undefined"]
    /\ out = EmptyBag
    /\ writes = EmptyBag
    /\ last = [ev |-> "init"]
    /\ regLog = [u \in Users |-> <<>>]

\* jwt.verify(token, SECRET) succeeds
Verifies(tok) == tok.sig = "good"

\* The transport hands out ids in order: c is the next unused id.
NextId(c) == conn[c] = "none" /\ \A d \in Conns : ConnIndex(d) < ConnIndex(c) => conn[d] # "none"
LiveCount == Cardinality({c \in Conns : conn[c] = "open"})

\* io.use middleware accepts, then io.on("connection") starts the avatar
\* lookup and installs the handlers.  The socket is in the room named by its
\* own id from the start.  At most MaxLive connections are open at a time.
Connect(c, tok) ==
    /\ NextId(c)
    /\ LiveCount < MaxLive
    /\ Verifies(tok)
    /\ conn' = [conn EXCEPT ![c] = "open"]
    /\ username' = [username EXCEPT ![c] = tok.username]
    /\ lookup' = [lookup EXCEPT ![c] = "pending"]
    /\ rooms' = [rooms EXCEPT ![c] = {c}]
    /\ out' = EmptyBag
    /\ writes' = EmptyBag
    /\ last' = [ev |-> "connection", conn |-> c]
    /\ UNCHANGED <<onlineUsers, userSocketMap, regLog>>

\* A middleware that registers the connection although it rejects it.
AuthRejectRegisters(c, tok) ==
    /\ NextId(c)
    /\ ~Verifies(tok)
    /\ conn' = [conn EXCEPT ![c] = "rejected"]
    /\ onlineUsers' = MapSet(onlineUsers, c,
            [username |-> tok.username, isBusy |-> FALSE, currentRoom |-> "null",
             avatar |-> "undefined"])
    /\ out' = EmptyBag
    /\ writes' = EmptyBag
    /\ last' = [ev |-> "auth-error", conn |-> c]
    /\ UNCHANGED <<lookup, username, rooms, userSocketMap, regLog>>

\* io.use middleware rejects: next(new Error("Auth error")).
AuthReject(c, tok) ==
    /\ NextId(c)
    /\ ~Verifies(tok)
    /\ conn' = [conn EXCEPT ![c] = "rejected"]
    /\ out' = EmptyBag
    /\ writes' = EmptyBag
    /\ last' = [ev |-> "auth-error", conn |-> c]
    /\ UNCHANGED <<lookup, username, rooms, onlineUsers, userSocketMap, regLog>>

\* The db.getUserAvatar callback of connection c (lines 182-186): runs once,
\* whenever the query completes, whatever has happened to c meanwhile.
AvatarCallback(c) ==
    /\ lookup[c] = "pending"
    /\ lookup' = [lookup EXCEPT ![c] = "done"]
    /\ onlineUsers' = StoreAfterSnapshot(MapSet(onlineUsers, c,
            [username |-> username[c], isBusy |-> FALSE, currentRoom |-> "null",
             avatar |-> DbAvatar(username[c])]))
    /\ userSocketMap' = RouteSet(userSocketMap, username[c], c)
    /\ out' = ToAll(conn, [ev |-> "update-user-list", list |-> getUniqueOnlineUsers(onlineUsers')])
    /\ writes' = EmptyBag
    /\ last' = [ev |-> "register", conn |-> c]
    /\ regLog' = [regLog EXCEPT ![username[c]] = Append(@, c)]
    /\ UNCHANGED <<conn, username, rooms>>

\* A join that flips the busy flag, so that a second join clears it.
JoinToggle(c, data) ==
    /\ conn[c] = "open"
    /\ rooms' = [rooms EXCEPT ![c] = @ \cup {data.room}]
    /\ onlineUsers' = StoreAfterSnapshot(
         IF MapHas(onlineUsers, c)
         THEN MapSet(onlineUsers, c,
                [MapGet(onlineUsers, c) EXCEPT !.isBusy = ~@, !.currentRoom = data.room])
         ELSE onlineUsers)
    /\ out' = ToAll(conn, [ev |-> "update-user-list", list |-> getUniqueOnlineUsers(onlineUsers')])
              (+) ToRoom(rooms', c, data.room,
                         [ev |-> "user-joined", id |-> c, username |-> username[c]])
    /\ writes' = EmptyBag
    /\ last' = [ev |-> "join", conn |-> c, data |-> data]
    /\ UNCHANGED <<conn, lookup, username, userSocketMap, regLog>>

\* socket.on("join") (lines 194-200)
Join(c, data) ==
    /\ conn[c] = "open"
    /\ rooms' = [rooms EXCEPT ![c] = @ \cup {data.room}]
    /\ onlineUsers' = StoreAfterSnapshot(
         IF MapHas(onlineUsers, c)
         THEN MapSet(onlineUsers, c,
                [MapGet(onlineUsers, c) EXCEPT !.isBusy = TRUE, !.currentRoom = data.room])
         ELSE onlineUsers)
    /\ out' = ToAll(conn, [ev |-> "update-user-list", list |-> getUniqueOnlineUsers(onlineUsers')])
              (+) ToRoom(rooms', c, data.room,
                         [ev |-> "user-joined", id |-> c, username |-> username[c]])
    /\ writes' = EmptyBag
    /\ last' = [ev |-> "join", conn |-> c, data |-> data]
    /\ UNCHANGED <<conn, lookup, username, userSocketMap, regLog>>

\* A disconnect that broadcasts the view before it removes the session.
DisconnectBroadcastFirst(c) ==
    /\ conn[c] = "open"
    /\ conn' = [conn EXCEPT ![c] = "closed"]
    /\ rooms' = [rooms EXCEPT ![c] = {}]
    /\ onlineUsers' = StoreAfterSnapshot(MapDelete(onlineUsers, c))
    /\ userSocketMap' = RouteDelete(userSocketMap, username[c])
    /\ out' = ToAll(conn', [ev |-> "update-user-list", list |-> getUniqueOnlineUsers(onlineUsers)])
    /\ writes' = EmptyBag
    /\ last' = [ev |-> "disconnect", conn |-> c]
    /\ regLog' = [regLog EXCEPT ![username[c]] = <<>>]
    /\ UNCHANGED <<lookup, username>>

\* socket.on("disconnect") (lines 214-218); the transport has already taken
\* the socket out of its rooms when the handler runs.
Disconnect(c) ==
    /\ conn[c] = "open"
    /\ conn' = [conn EXCEPT ![c] = "closed"]
    /\ rooms' = [rooms EXCEPT ![c] = {}]
    /\ onlineUsers' = StoreAfterSnapshot(MapDelete(onlineUsers, c))
    /\ userSocketMap' = RouteDelete(userSocketMap, username[c])
    /\ out' = ToAll(conn', [ev |-> "update-user-list", list |-> getUniqueOnlineUsers(onlineUsers')])
    /\ writes' = EmptyBag
    /\ last' = [ev |-> "disconnect", conn |-> c]
    /\ regLog' = [regLog EXCEPT ![username[c]] = <<>>]
    /\ UNCHANGED <<lookup, username>>

\* socket.on("initiate-call") (lines 188-192)
InitiateCall(c, data) ==
    /\ conn[c] = "open"
    /\ LET targetId == RouteGet(userSocketMap, data.target)
       IN out' = IF targetId = "undefined"
                 THEN ToSelf(c, [ev |-> "call-rejected", from |-> "System", reason |-> "offline"])
                 ELSE ToRoom(rooms, c, targetId,
                             [ev |-> "incoming-call", from |-> username[c], room |-> data.room,
                              type |-> data.type, callMode |-> data.callMode])
    /\ writes' = EmptyBag
    /\ last' = [ev |-> "initiate-call", conn |-> c, data |-> data]
    /\ UNCHANGED <<conn, lookup, username, rooms, onlineUsers, userSocketMap, regLog>>

\* { sender: socket.username, time: ..., ...data }: the fields of the
\* client win over those of the server.
StampClientFirst(ev, data, sender, time) ==
    [ev |-> ev,
     data |-> [data EXCEPT !.sender = IF @ = "undefined" THEN sender ELSE @,
                           !.time = IF @ = "undefined" THEN time ELSE @]]

\* { ...data, sender: socket.username, time: ... } as an event named ev
Stamp(ev, data, sender, time) ==
    [ev |-> ev, data |-> [data EXCEPT !.sender = sender, !.time = time]]

\* socket.on("chat-message") (lines 202-205)
ChatMessage(c, data, t) ==
    /\ conn[c] = "open"
    /\ writes' = SetToBag({saveMessage(username[c], "null", data.room, data.text, data.image, "group")})
    /\ out' = ToRoom(rooms, c, data.room, Stamp("chat-message", data, username[c], t))
    /\ last' = [ev |-> "chat-message", conn |-> c, data |-> data]
    /\ UNCHANGED <<conn, lookup, username, rooms, onlineUsers, userSocketMap, regLog>>

\* private-chat that persists only a message it can forward.
PrivateChatSaveIfOnline(c, data, t1, t2) ==
    /\ conn[c] = "open"
    /\ LET targetId == RouteGet(userSocketMap, data.to)
           forward == IF targetId # "undefined"
                      THEN ToRoom(rooms, c, targetId, Stamp("private-chat", data, username[c], t1))
                      ELSE EmptyBag
       IN /\ out' = forward (+) ToSelf(c, Stamp("private-chat", data, username[c], t2))
          /\ writes' = IF targetId # "undefined"
                       THEN SetToBag({saveMessage(username[c], data.to, "null", data.text, data.image, "private")})
                       ELSE EmptyBag
    /\ last' = [ev |-> "private-chat", conn |-> c, data |-> data]
    /\ UNCHANGED <<conn, lookup, username, rooms, onlineUsers, userSocketMap, regLog>>

\* private-chat that echoes only a message it could not forward.
PrivateChatEchoIfOffline(c, data, t1, t2) ==
    /\ conn[c] = "open"
    /\ writes' = SetToBag({saveMessage(username[c], data.to, "null", data.text, data.image, "private")})
    /\ LET targetId == RouteGet(userSocketMap, data.to)
       IN out' = IF targetId # "undefined"
                 THEN ToRoom(rooms, c, targetId, Stamp("private-chat", data, username[c], t1))
                 ELSE ToSelf(c, Stamp("private-chat", data, username[c], t2))
    /\ last' = [ev |-> "private-chat", conn |-> c, data |-> data]
    /\ UNCHANGED <<conn, lookup, username, rooms, onlineUsers, userSocketMap, regLog>>

\* socket.on("private-chat") (lines 207-212); t1 and t2 are the two clock
\* readings of the handler.
PrivateChat(c, data, t1, t2) ==
    /\ conn[c] = "open"
    /\ writes' = SetToBag({saveMessage(username[c], data.to, "null", data.text, data.image, "private")})
    /\ LET targetId == RouteGet(userSocketMap, data.to)
           forward == IF targetId # "undefined"
                      THEN ToRoom(rooms, c, targetId, Stamp("private-chat", data, username[c], t1))
                      ELSE EmptyBag
       IN out' = forward (+) ToSelf(c, Stamp("private-chat", data, username[c], t2))
    /\ last' = [ev |-> "private-chat", conn |-> c, data |-> data]
    /\ UNCHANGED <<conn, lookup, username, rooms, onlineUsers, userSocketMap, regLog>>

\* offer tagged with the sender's username in place of its connection id.
OfferFromName(c, d) ==
    /\ conn[c] = "open"
    /\ out' = ToRoom(rooms, c, d.to,
                     [ev |-> "offer", offer |-> d.offer, from |-> username[c], username |-> username[c]])
    /\ writes' = EmptyBag
    /\ last' = [ev |-> "offer", conn |-> c, data |-> d]
    /\ UNCHANGED <<conn, lookup, username, rooms, onlineUsers, userSocketMap, regLog>>

\* socket.on("offer") (line 220)
Offer(c, d) ==
    /\ conn[c] = "open"
    /\ out' = ToRoom(rooms, c, d.to,
                     [ev |-> "offer", offer |-> d.offer, from |-> c, username |-> username[c]])
    /\ writes' = EmptyBag
    /\ last' = [ev |-> "offer", conn |-> c, data |-> d]
    /\ UNCHANGED <<conn, lookup, username, rooms, onlineUsers, userSocketMap, regLog>>

\* socket.on("answer") (line 221)
Answer(c, d) ==
    /\ conn[c] = "open"
    /\ out' = ToRoom(rooms, c, d.to, [ev |-> "answer", answer |-> d.answer, from |-> c])
    /\ writes' = EmptyBag
    /\ last' = [ev |-> "answer", conn |-> c, data |-> d]
    /\ UNCHANGED <<conn, lookup, username, rooms, onlineUsers, userSocketMap, regLog>>

\* socket.on("ice") (line 222)
Ice(c, d) ==
    /\ conn[c] = "open"
    /\ out' = ToRoom(rooms, c, d.to, [ev |-> "ice", candidate |-> d.candidate, from |-> c])
    /\ writes' = EmptyBag
    /\ last' = [ev |-> "ice", conn |-> c, data |-> d]
    /\ UNCHANGED <<conn, lookup, username, rooms, onlineUsers, userSocketMap, regLog>>

\* A completion that issues a failed insert again.
WriteCompleteRetry(ok) ==
    /\ writes # EmptyBag
    /\ writes' = IF ok THEN EmptyBag ELSE writes
    /\ out' = EmptyBag
    /\ last' = [ev |-> "write-done", ok |-> ok, of |-> last.ev, conn |-> last.conn]
    /\ UNCHANGED <<conn, lookup, username, rooms, onlineUsers, userSocketMap, regLog>>

\* The INSERT issued by db.saveMessage completes, with or without an error
\* (part_000 lines 201-202): db.query is given no callback, so no code of the
\* server runs on either outcome.  A write that never completes is a write
\* for which this step is never taken.
WriteComplete(ok) ==
    /\ writes # EmptyBag
    /\ writes' = EmptyBag
    /\ out' = EmptyBag
    /\ last' = [ev |-> "write-done", ok |-> ok, of |-> last.ev, conn |-> last.conn]
    /\ UNCHANGED <<conn, lookup, username, rooms, onlineUsers, userSocketMap, regLog>>

\* The events whose handlers change the registry or the rooms.  The relay
\* handlers (initiate-call, chat-message, private-chat, offer, answer, ice)
\* read that state and leave it alone, so a relay event that follows another
\* relay event reaches exactly the states it reaches when it comes first;
\* Next takes relay events from the states the other events lead to.  The
\* completion of a write leaves that state alone as well.
Settled == last.ev \in {"init", "connection", "auth-error", "register", "join", "disconnect"}

Next ==
    \/ \E c \in Conns, tok \in Tokens : Connect(c, tok)
    \/ \E c \in Conns, tok \in Tokens : AuthReject(c, tok)
    \/ \E c \in Conns : AvatarCallback(c)
    \/ \E c \in Conns, data \in JoinData : Join(c, data)
    \/ \E c \in Conns : Disconnect(c)
    \/ Settled /\ \E c \in Conns, data \in CallData : InitiateCall(c, data)
    \/ Settled /\ \E c \in Conns, data \in ChatData, t \in Times : ChatMessage(c, data, t)
    \/ Settled /\ \E c \in Conns, data \in PrivateData, t \in ClockPairs : PrivateChat(c, data, t[1], t[2])
    \/ Settled /\ \E c \in Conns, d \in OfferData : Offer(c, d)
    \/ Settled /\ \E c \in Conns, d \in AnswerData : Answer(c, d)
    \/ Settled /\ \E c \in Conns, d \in IceData : Ice(c, d)
    \/ \E ok \in BOOLEAN : WriteComplete(ok)

Spec == Init /\ [][Next]_vars

\* ======================================================================
\* Properties
\* ======================================================================
Live(c) == conn[c] = "open"
Registered(c) == lookup[c] = "done"
\* The entries of onlineUsers stored under id c.
EntriesOf(c) == {i \in 1..Len(onlineUsers) : onlineUsers[i].id = c}
\* The usernames that have a session in m.
UsernamesIn(m) == {m[i].user.username : i \in 1..Len(m)}
\* The deliveries of the last handler that went to connection d.
DeliveriesTo(d) == {e \in DOMAIN out : e.dest = d}
\* Number of events the last handler delivered to connection d.
CountTo(d) == BagCardinality([e \in DeliveriesTo(d) |-> out[e]])

\* C1: onlineUsers holds exactly one entry for each connection that is
\* registered and has not disconnected, and no entry for a connection that
\* has disconnected, so its size is the number of live registered
\* connections.
C1_NoLeakedSession ==
    /\ \A c \in Conns :
        /\ (Live(c) /\ Registered(c)) => Cardinality(EntriesOf(c)) = 1
        /\ conn[c] = "closed" => EntriesOf(c) = {}
    /\ Len(onlineUsers) = Cardinality({c \in Conns : Live(c) /\ Registered(c)})

\* C2: every username -> connectionId entry of userSocketMap names a key of
\* onlineUsers, and the session under that key has that username.
C2_RouteNamesSession ==
    \A u \in DOMAIN userSocketMap :
        /\ MapHas(onlineUsers, userSocketMap[u])
        /\ MapGet(onlineUsers, userSocketMap[u]).username = u

\* C2 witness: a disconnect has just removed a session and its route while
\* another route is still in the map.
C2_Witness ==
    /\ last.ev = "disconnect"
    /\ DOMAIN userSocketMap # {}
    /\ \E c \in Conns : conn[c] = "closed" /\ Registered(c) /\ ~MapHas(onlineUsers, c)

\* C3: a disconnect of a connection that userSocketMap does not map its
\* username to, while the mapped connection is live, leaves the route of
\* that username in place.
C3_StaleDisconnectKeepsRoute ==
    [][\A c \in Conns :
         LET u == username[c] IN
         (/\ Live(c) /\ conn'[c] = "closed"
          /\ u \in DOMAIN userSocketMap
          /\ userSocketMap[u] # c
          /\ Live(userSocketMap[u]))
         => (u \in DOMAIN userSocketMap' /\ userSocketMap'[u] = userSocketMap[u])]_vars

\* A username has a live session when one of its connections is open.
HasLiveSession(n) == \E c \in Conns : Live(c) /\ username[c] = n

\* C4: an initiate-call whose target has no live session delivers exactly
\* one call-rejected {from: "System", reason: "offline"} to the caller and
\* nothing else.
C4_OfflineTargetRejected ==
    (last.ev = "initiate-call" /\ ~HasLiveSession(last.data.target))
    => out = SetToBag({[dest |-> last.conn,
                        msg |-> [ev |-> "call-rejected", from |-> "System", reason |-> "offline"]]})

\* The events of the last handler that were forwarded to another connection
\* than the sender.
Forwarded == {e \in DOMAIN out : e.dest # last.conn}

\* C5: when two or more connections of a username were registered one
\* after the other with no disconnect of that username in between, the
\* route of the username is the connection registered last, and an
\* initiate-call or private-chat addressed to the username is forwarded to
\* that connection and to no other.
C5_LastWriterWins ==
    \A u \in Users :
        Len(regLog[u]) >= 2 =>
            LET c2 == regLog[u][Len(regLog[u])] IN
            /\ RouteGet(userSocketMap, u) = c2
            /\ (/\ last.ev \in {"initiate-call", "private-chat"}
                /\ (IF last.ev = "initiate-call" THEN last.data.target ELSE last.data.to) = u)
               => /\ \A e \in Forwarded : e.dest = c2
                  /\ (Live(c2) /\ c2 # last.conn) => CountTo(c2) = 1

\* C5 witness: alice registered twice in a row, and a call to alice was
\* forwarded to the second connection.
C5_Witness ==
    /\ Len(regLog["alice"]) >= 2
    /\ last.ev = "initiate-call"
    /\ last.data.target = "alice"
    /\ last.conn = regLog["alice"][1]
    /\ CountTo(regLog["alice"][2]) = 1

\* The sequences that hold the entries of m in another order.
Reorderings(m) == {[i \in 1..Len(m) |-> m[p[i]]] : p \in Permutations(1..Len(m))}
\* A presence view as a set of (username, isBusy) pairs.
ViewPairs(view) == {<<view[i].username, view[i].isBusy>> : i \in 1..Len(view)}
AnyBusy(m, u) == \E k \in 1..Len(m) : m[k].user.username = u /\ m[k].user.isBusy

\* The handlers that compute the presence view, after they changed
\* onlineUsers: every content onlineUsers takes is seen after one of them.
ViewComputed == last.ev \in {"register", "join", "disconnect"}

\* C6: getUniqueOnlineUsers returns exactly one entry per username present
\* in onlineUsers, and an entry is busy iff some session of its username is
\* busy, whatever the insertion order of the sessions.
C6_UniqueView ==
    ViewComputed =>
        \A m \in Reorderings(onlineUsers) :
            LET view == getUniqueOnlineUsers(m) IN
            /\ \A i, j \in 1..Len(view) : view[i].username = view[j].username => i = j
            /\ {view[i].username : i \in 1..Len(view)} = UsernamesIn(m)
            /\ \A i \in 1..Len(view) : view[i].isBusy <=> AnyBusy(m, view[i].username)

\* C6 witness: a username has a session that is not busy stored before one
\* that is busy, and the view broadcast by the join shows it busy once.
C6_Witness ==
    /\ last.ev = "join"
    /\ \E i, j \in 1..Len(onlineUsers) :
        /\ i < j
        /\ onlineUsers[i].user.username = onlineUsers[j].user.username
        /\ ~onlineUsers[i].user.isBusy
        /\ onlineUsers[j].user.isBusy
    /\ \E e \in DOMAIN out :
        /\ e.msg.ev = "update-user-list"
        /\ Len(e.msg.list) = 1
        /\ e.msg.list[1].isBusy

\* C7: a chat-message of connection A with room r is delivered exactly
\* once to every member of r other than A, with sender = A's username and
\* the text sent, and to nobody else.
C7_RoomBroadcast ==
    last.ev = "chat-message" =>
        /\ \A d \in Conns :
            CountTo(d) = IF d # last.conn /\ last.data.room \in rooms[d] THEN 1 ELSE 0
        /\ \A e \in DOMAIN out :
            /\ e.msg.ev = "chat-message"
            /\ e.msg.data.sender = username[last.conn]
            /\ e.msg.data.text = last.data.text
            /\ e.msg.data.room = last.data.room

\* C7 witness: the sender is itself a member of the room and another
\* member received the message.
C7_Witness ==
    /\ last.ev = "chat-message"
    /\ last.data.room = "r1"
    /\ "r1" \in rooms[last.conn]
    /\ \E d \in Conns \ {last.conn} : "r1" \in rooms[d] /\ CountTo(d) = 1

\* C8: a private-chat event issues exactly one message insert, with
\* sender = the sending connection's username, receiver = data.to and kind
\* private, whether or not the recipient has a route.
C8_OneWritePerDirectMessage ==
    last.ev = "private-chat" =>
        /\ BagCardinality(writes) = 1
        /\ \A w \in DOMAIN writes :
            /\ w.sender = username[last.conn]
            /\ w.receiver = last.data.to
            /\ w.type = "private"
            /\ w.message = last.data.text

\* C8 witness: a direct message to a name without a route was written once.
C8_Witness ==
    /\ last.ev = "private-chat"
    /\ last.data.to \notin DOMAIN userSocketMap
    /\ BagCardinality(writes) = 1

\* C9: a private-chat event is always echoed to the connection that sent
\* it, carrying the sender's username and the text sent.
C9_EchoToSender ==
    last.ev = "private-chat" =>
        \E e \in DeliveriesTo(last.conn) :
            /\ e.msg.ev = "private-chat"
            /\ e.msg.data.sender = username[last.conn]
            /\ e.msg.data.to = last.data.to
            /\ e.msg.data.text = last.data.text
            /\ e.msg.data.image = last.data.image

\* C9 witness: a direct message to a routable recipient on another
\* connection was both forwarded and echoed.
C9_Witness ==
    /\ last.ev = "private-chat"
    /\ last.data.to \in DOMAIN userSocketMap
    /\ userSocketMap[last.data.to] # last.conn
    /\ CountTo(userSocketMap[last.data.to]) = 1
    /\ CountTo(last.conn) = 1

\* C10: a forwarded offer / answer / ice event carries the payload
\* received, from = the sending connection's id, username = the sender's
\* username for offer only, and nothing else.
C10_HandshakeVerbatim ==
    /\ last.ev = "offer" =>
        \A e \in DOMAIN out :
            e.msg = [ev |-> "offer", offer |-> last.data.offer, from |-> last.conn,
                     username |-> username[last.conn]]
    /\ last.ev = "answer" =>
        \A e \in DOMAIN out :
            e.msg = [ev |-> "answer", answer |-> last.data.answer, from |-> last.conn]
    /\ last.ev = "ice" =>
        \A e \in DOMAIN out :
            e.msg = [ev |-> "ice", candidate |-> last.data.candidate, from |-> last.conn]

\* C10 witness: an offer addressed to another connection's id reached it.
C10_Witness ==
    /\ last.ev = "offer"
    /\ last.data.to \in Conns \ {last.conn}
    /\ CountTo(last.data.to) = 1

\* C11: a connection whose credential fails verification never gets a
\* session, a route or an avatar lookup, triggers no broadcast, and its
\* rejection leaves onlineUsers and userSocketMap as they were.
C11_RejectedNeverRegistered ==
    /\ [](\A c \in Conns : conn[c] = "rejected" =>
            /\ ~MapHas(onlineUsers, c)
            /\ \A u \in DOMAIN userSocketMap : userSocketMap[u] # c
            /\ lookup[c] = "idle"
            /\ rooms[c] = {}
            /\ (last.ev = "auth-error" /\ last.conn = c) => out = EmptyBag
            /\ (last.ev \in {"register", "join", "disconnect"}) => last.conn # c)
    /\ [][last'.ev = "auth-error" =>
            (onlineUsers' = onlineUsers /\ userSocketMap' = userSocketMap)]_vars

\* C11 witness: a connection was rejected while the registry held a session
\* and a route.
C11_Witness ==
    /\ last.ev = "auth-error"
    /\ conn[last.conn] = "rejected"
    /\ onlineUsers # <<>>
    /\ DOMAIN userSocketMap # {}

\* The registry and the rooms.
registry == <<conn, lookup, username, rooms, onlineUsers, userSocketMap>>

\* C12: chat-message and private-chat deliver their events in the step that
\* issues the write, before the write has an outcome; when the write
\* completes, with or without an error, nothing is delivered to anyone, no
\* write is issued again, and the registry is as it was.
C12_ForwardIndependentOfWrite ==
    /\ [](/\ last.ev = "chat-message" =>
              /\ BagCardinality(writes) = 1
              /\ \A d \in Conns \ {last.conn} : last.data.room \in rooms[d] => CountTo(d) = 1
          /\ last.ev = "private-chat" =>
              /\ BagCardinality(writes) = 1
              /\ CountTo(last.conn) = 1
              /\ LET t == RouteGet(userSocketMap, last.data.to)
                 IN (t # "undefined" /\ t # last.conn /\ Live(t)) => CountTo(t) = 1
          /\ last.ev = "write-done" => (out = EmptyBag /\ writes = EmptyBag))
    /\ [][last'.ev = "write-done" =>
            /\ last.ev \in {"chat-message", "private-chat"}
            /\ writes # EmptyBag
            /\ registry' = registry]_vars

\* C12 witness: the insert of a direct message failed after the message had
\* been echoed.
C12_Witness ==
    /\ last.ev = "write-done"
    /\ ~last.ok
    /\ last.of = "private-chat"

\* The connection has joined a room: its join event was processed.
Joined(c) == rooms[c] \cap RoomNames # {}

\* C13: every session in onlineUsers whose connection has joined a room has
\* isBusy = TRUE, whatever the order of the join and the registration.
C13_JoinedIsBusy ==
    \A i \in 1..Len(onlineUsers) :
        Joined(onlineUsers[i].id) => onlineUsers[i].user.isBusy

\* Number of events the last handler delivered in all.
CountAll == BagCardinality(out)

\* C14: an offer, answer or ice event is delivered to at most one
\* connection, the one whose id is the event's to field, whatever the
\* client put there.
C14_HandshakeToOneConnection ==
    last.ev \in {"offer", "answer", "ice"} =>
        /\ CountAll <= 1
        /\ \A e \in DOMAIN out : e.dest = last.data.to

\* C18: a chat-message is delivered to the members of its room only when
\* the sending connection is a member of that room.
C18_ChatOnlyFromMember ==
    (last.ev = "chat-message" /\ out # EmptyBag) => last.data.room \in rooms[last.conn]

\* The update-user-list events the last handler delivered.
UserLists == {e \in DOMAIN out : e.msg.ev = "update-user-list"}
\* The entries of a presence view for username u.
ViewEntries(view, u) == {i \in 1..Len(view) : view[i].username = u}

\* C15: a handler that changes the registry broadcasts, to every open
\* connection, the view of the registry as the handler left it: after a
\* registration it names the registered username, after a disconnect it is
\* the view without the disconnected connection's session, after a join of
\* a registered connection it shows the joining username busy.
C15_BroadcastAfterMutation ==
    ViewComputed =>
        /\ \A d \in Conns : Live(d) => \E e \in UserLists : e.dest = d /\ out[e] = 1
        /\ \A e \in UserLists :
            LET view == e.msg.list
                u == username[last.conn]
            IN /\ view = getUniqueOnlineUsers(onlineUsers)
               /\ last.ev = "register" => ViewEntries(view, u) # {}
               /\ last.ev = "disconnect" =>
                    /\ view = getUniqueOnlineUsers(MapDelete(onlineUsers, last.conn))
                    /\ (\A c \in Conns \ {last.conn} : MapHas(onlineUsers, c) => username[c] # u)
                       => ViewEntries(view, u) = {}
               /\ (last.ev = "join" /\ MapHas(onlineUsers, last.conn)) =>
                    /\ ViewEntries(view, u) # {}
                    /\ \A i \in ViewEntries(view, u) : view[i].isBusy

\* C15 witness: a disconnect of the only session of a username was
\* broadcast to a remaining connection with a view that names another user
\* only.
C15_Witness ==
    /\ last.ev = "disconnect"
    /\ \E e \in UserLists :
        /\ Len(e.msg.list) = 1
        /\ e.msg.list[1].username # username[last.conn]

\* C16: computing the presence view is read-only.  A call of
\* getUniqueOnlineUsers on the registry leaves every stored session as it
\* is, no handler that computes the view changes userSocketMap or a stored
\* session beyond its own update, and so a stored session is busy only if
\* its own connection joined a room.
C16_SnapshotReadOnly ==
    /\ [](ViewComputed =>
            /\ StoreAfterSnapshot(onlineUsers) = onlineUsers
            /\ \A i \in 1..Len(onlineUsers) :
                onlineUsers[i].user.isBusy => Joined(onlineUsers[i].id))
    /\ [][\A i \in 1..Len(onlineUsers) :
            LET c == onlineUsers[i].id IN
            (MapHas(onlineUsers', c) /\ ~(last'.ev = "join" /\ last'.conn = c))
            => MapGet(onlineUsers', c) = onlineUsers[i].user]_vars

\* C16 witness: a username has a session that is not busy stored before a
\* busy one, a registration of another connection has computed the view
\* since, and the first session is still not busy.
C16_Witness ==
    /\ last.ev = "register"
    /\ \E i, j \in 1..Len(onlineUsers) :
        /\ i < j
        /\ onlineUsers[i].user.username = onlineUsers[j].user.username
        /\ ~onlineUsers[i].user.isBusy
        /\ onlineUsers[j].user.isBusy
        /\ last.conn \notin {onlineUsers[i].id, onlineUsers[j].id}

\* The values the server's clock takes.
ServerTimes == {p[1] : p \in ClockPairs} \cup {p[2] : p \in ClockPairs}

\* C17: the identity a relayed event carries is the verified username of
\* the sending connection, which is set when the connection is accepted and
\* never changes: sender of chat-message and private-chat, from of
\* incoming-call and username of offer, whatever sender, from, username or
\* time the client sent.
C17_VerifiedIdentity ==
    /\ [](\A e \in DOMAIN out :
            /\ e.msg.ev \in {"chat-message", "private-chat"} =>
                /\ e.msg.data.sender = username[last.conn]
                /\ e.msg.data.time \in ServerTimes
            /\ e.msg.ev = "incoming-call" => e.msg.from = username[last.conn]
            /\ e.msg.ev = "offer" => e.msg.username = username[last.conn]
            /\ e.msg.ev \in {"chat-message", "private-chat", "incoming-call", "offer"} =>
                username[last.conn] \in Users)
    /\ [][\A c \in Conns : username[c] # "undefined" => username'[c] = username[c]]_vars

\* C17 witness: a chat message whose client put sender "mallory" and a time
\* of its own in it reached another connection.
C17_Witness ==
    /\ last.ev = "chat-message"
    /\ last.data.sender = "mallory"
    /\ last.data.time = "t0"
    /\ \E e \in DOMAIN out : e.dest # last.conn /\ e.msg.data.sender = username[last.conn]

\* The session stored under id c is busy.
BusySession(m, c) == MapHas(m, c) /\ MapGet(m, c).isBusy

\* C19: a stored session that is busy has a room, stays busy with a room
\* in every step that keeps it, and is removed only by the disconnect of
\* its own connection; while it is stored, every view that is computed
\* shows its username busy.
C19_BusyMonotonic ==
    /\ [](\A i \in 1..Len(onlineUsers) :
            onlineUsers[i].user.isBusy =>
                /\ onlineUsers[i].user.currentRoom # "null"
                /\ ViewComputed =>
                    LET view == getUniqueOnlineUsers(onlineUsers)
                    IN \E k \in 1..Len(view) :
                        view[k].username = onlineUsers[i].user.username /\ view[k].isBusy)
    /\ [][\A c \in Conns :
            BusySession(onlineUsers, c) =>
                IF MapHas(onlineUsers', c)
                THEN MapGet(onlineUsers', c).isBusy /\ MapGet(onlineUsers', c).currentRoom # "null"
                ELSE last'.ev = "disconnect" /\ last'.conn = c]_vars

\* C19 witness: a busy session has joined once more, and it is still busy.
C19_Witness ==
    /\ last.ev = "join"
    /\ BusySession(onlineUsers, last.conn)
    /\ \E c \in Conns \ {last.conn} :
        /\ MapHas(onlineUsers, c)
        /\ MapGet(onlineUsers, c).username = username[last.conn]
        /\ ~MapGet(onlineUsers, c).isBusy
        /\ ConnIndex(last.conn) < ConnIndex(c)
====
